---- MODULE Spec2Model ----
(***************************************************************************)
(* Conv + BN fusion for QAT (torch/ao/quantization/_pt2e/qat_utils.py).    *)
(*                                                                         *)
(* A graph is a store of nodes (`nodes`, indexed by node identity; a node  *)
(* erased from the graph stays in the store, as the Python object stays    *)
(* alive while a match's nodes_map references it) and the order of the     *)
(* nodes that are in the graph (`graph`).  An argument of a node is an     *)
(* integer: a positive number is a reference to the node of that identity, *)
(* NoneArg is Python's None and a negative number is a literal.            *)
(***************************************************************************)
EXTENDS Integers, Sequences, FiniteSets, TLC

\* Largest number of blocks of a host graph.
MaxBlocks == 2

NoneArg == 0
Lit(k) == -1 - k
IsNode(a) == a > 0

LitFalse == Lit(0)
LitTrue == Lit(1)
\* bn_eps = 1e-5, the momentum 0.1 and the reshape shapes, as literal codes
bn_eps == Lit(5)
Momentum == Lit(10)
weight_shape == Lit(11)
bias_shape == Lit(12)

ConvTarget == "aten.convolution.default"
BnTarget == "aten._native_batch_norm_legit.default"
GetitemTarget == "operator.getitem"

\* Metadata that tracing a pattern function gives the pattern's nodes.
PatternMeta == Lit(0)

MkNode(t, a, m) == [target |-> t, args |-> a, meta |-> m]

Range(s) == {s[i] : i \in 1..Len(s)}

\* s[from..] (1-based), the Python slice s[from-1:]
Tail_(s, from) == [i \in 1..(IF Len(s) >= from THEN Len(s) - from + 1 ELSE 0) |-> s[i + from - 1]]
\* s[..upto] (1-based), the Python slice s[:upto]
Head_(s, upto) == [i \in 1..(IF Len(s) >= upto THEN upto ELSE Len(s)) |-> s[i]]

(***************************************************************************)
(* Host graphs.  A host graph is a chain of blocks fed by the placeholder  *)
(* x and ended by the output node.  Every node of a host graph carries its *)
(* own metadata (its identity), and every host convolution its own stride. *)
(***************************************************************************)
Kinds == {"conv", "convn", "cb", "cn", "bnd", "relu"}

\* stride, padding, dilation, transposed, output_padding, groups of block i
HostConvTrailing(i) == <<Lit(i + 1), Lit(1), Lit(1), LitFalse, Lit(0), Lit(1)>>

Param(id) == MkNode("get_attr", <<>>, id)

HostConv(ns, p, bias, i) ==
    LET n0 == Len(ns) IN
    IF bias
    THEN ns \o <<Param(n0 + 1), Param(n0 + 2),
                 MkNode(ConvTarget, <<p, n0 + 1, n0 + 2>> \o HostConvTrailing(i), n0 + 3)>>
    ELSE ns \o <<Param(n0 + 1),
                 MkNode(ConvTarget, <<p, n0 + 1, NoneArg>> \o HostConvTrailing(i), n0 + 2)>>

\* batch norm in training mode on p, and the getitem taking its first output
HostBn(ns, p) ==
    LET n0 == Len(ns) IN
    ns \o <<Param(n0 + 1), Param(n0 + 2), Param(n0 + 3), Param(n0 + 4),
            MkNode(BnTarget, <<p, n0 + 1, n0 + 2, n0 + 3, n0 + 4, LitTrue, Momentum, bn_eps>>, n0 + 5),
            MkNode(GetitemTarget, <<n0 + 5, Lit(0)>>, n0 + 6)>>

AddBlock(ns, p, kind, i) ==
    CASE kind = "conv" -> HostConv(ns, p, TRUE, i)
      [] kind = "convn" -> HostConv(ns, p, FALSE, i)
      [] kind = "cb" -> LET c == HostConv(ns, p, TRUE, i) IN HostBn(c, Len(c))
      [] kind = "cn" -> LET c == HostConv(ns, p, FALSE, i) IN HostBn(c, Len(c))
      \* a batch norm whose second output is extracted but never used
      [] kind = "bnd" -> LET b == HostBn(ns, p) IN
                         b \o <<MkNode(GetitemTarget, <<Len(b) - 1, Lit(1)>>, Len(b) + 1)>>
      [] kind = "relu" -> Append(ns, MkNode("aten.relu.default", <<p>>, Len(ns) + 1))

BlockOut(ns, kind) == IF kind = "bnd" THEN Len(ns) - 1 ELSE Len(ns)

RECURSIVE BuildFrom(_, _, _, _)
BuildFrom(ns, p, blocks, i) ==
    IF i > Len(blocks)
    THEN Append(ns, MkNode("output", <<p>>, Len(ns) + 1))
    ELSE LET ns2 == AddBlock(ns, p, blocks[i], i) IN
         BuildFrom(ns2, BlockOut(ns2, blocks[i]), blocks, i + 1)

HostNodes(blocks) == BuildFrom(<<MkNode("placeholder", <<>>, 1)>>, 1, blocks, 1)

BlockSeqs == UNION {[1..k -> Kinds] : k \in 1..MaxBlocks}

(***************************************************************************)
(* torch.fx graph primitives used by the fusion.                           *)
(***************************************************************************)
InGraph(g, id) == \E i \in 1..Len(g) : g[i] = id

\* the nodes of the graph that take node id as an argument (Node.users)
Users(ns, g, id) == {u \in Range(g) : \E k \in 1..Len(ns[u].args) : ns[u].args[k] = id}

RemoveAt(g, i) == SubSeq(g, 1, i - 1) \o SubSeq(g, i + 1, Len(g))

Impure(nd) == nd.target \in {"placeholder", "output"}

RECURSIVE DceFrom(_, _, _)
DceFrom(ns, g, i) ==
    IF i = 0 THEN g
    ELSE IF ~Impure(ns[g[i]]) /\ Users(ns, g, g[i]) = {}
         THEN DceFrom(ns, RemoveAt(g, i), i - 1)
         ELSE DceFrom(ns, g, i - 1)

\* Graph.eliminate_dead_code(): in reverse order, erase every node without
\* users that is no placeholder and not the output
eliminate_dead_code(ns, g) == DceFrom(ns, g, Len(g))

(***************************************************************************)
(* The pattern library.  A pattern graph is the sequence of its nodes      *)
(* after the seven placeholders; an argument Ph(name) is a placeholder and *)
(* In(k) the k-th node of the sequence.  The last node is the one the      *)
(* pattern returns.                                                        *)
(***************************************************************************)
Placeholders == <<"x", "conv_weight", "conv_bias", "bn_weight", "bn_bias",
                  "bn_running_mean", "bn_running_var">>
Ph(name) == CHOOSE i \in 1..Len(Placeholders) : Placeholders[i] = name
In(k) == Len(Placeholders) + k

\* stride, padding, dilation, transposed, output_padding, groups of F.conv2d
\* called without them
DefaultConvTrailing == <<Lit(1), Lit(0), Lit(1), LitFalse, Lit(0), Lit(1)>>

PN(name, t, a) == [name |-> name, target |-> t, args |-> a, meta |-> PatternMeta]

BnArgs(input) == <<input, Ph("bn_weight"), Ph("bn_bias"), Ph("bn_running_mean"),
                   Ph("bn_running_var"), LitTrue, Momentum, bn_eps>>

_conv2d_bn_pattern == <<
    PN("convolution", ConvTarget,
       <<Ph("x"), Ph("conv_weight"), Ph("conv_bias")>> \o DefaultConvTrailing),
    PN("bn", BnTarget, BnArgs(In(1))),
    PN("getitem", GetitemTarget, <<In(2), Lit(0)>>) >>

_fused_qat_conv2d_bn_pattern == <<
    PN("add", "aten.add.Tensor", <<Ph("bn_running_var"), bn_eps>>),
    PN("sqrt", "aten.sqrt.default", <<In(1)>>),
    PN("div", "aten.div.Tensor", <<Ph("bn_weight"), In(2)>>),
    PN("view", "aten.view.default", <<In(3), weight_shape>>),
    PN("mul", "aten.mul.Tensor", <<Ph("conv_weight"), In(4)>>),
    PN("zeros_like", "aten.zeros_like.default", <<Ph("conv_bias")>>),
    PN("convolution", ConvTarget, <<Ph("x"), In(5), In(6)>> \o DefaultConvTrailing),
    PN("view_1", "aten.view.default", <<In(3), bias_shape>>),
    PN("div_1", "aten.div.Tensor", <<In(7), In(8)>>),
    PN("view_2", "aten.view.default", <<Ph("conv_bias"), bias_shape>>),
    PN("add_1", "aten.add.Tensor", <<In(9), In(10)>>),
    PN("bn", BnTarget, BnArgs(In(11))),
    PN("getitem", GetitemTarget, <<In(12), Lit(0)>>) >>

_fused_qat_conv2d_bn_pattern_no_conv_bias == <<
    PN("add", "aten.add.Tensor", <<Ph("bn_running_var"), bn_eps>>),
    PN("sqrt", "aten.sqrt.default", <<In(1)>>),
    PN("div", "aten.div.Tensor", <<Ph("bn_weight"), In(2)>>),
    PN("view", "aten.view.default", <<In(3), weight_shape>>),
    PN("mul", "aten.mul.Tensor", <<Ph("conv_weight"), In(4)>>),
    PN("convolution", ConvTarget, <<Ph("x"), In(5), NoneArg>> \o DefaultConvTrailing),
    PN("view_1", "aten.view.default", <<In(3), bias_shape>>),
    PN("div_1", "aten.div.Tensor", <<In(6), In(7)>>),
    PN("bn", BnTarget, BnArgs(In(8))),
    PN("getitem", GetitemTarget, <<In(9), Lit(0)>>) >>

\* the position in pattern P of its node of target t
PIndex(P, t) == CHOOSE j \in 1..Len(P) : P[j].target = t
\* the position in pattern P of its node of name nm
PNamed(P, nm) == CHOOSE j \in 1..Len(P) : P[j].name = nm

\* line 148
match_pattern == _conv2d_bn_pattern

\* a fused pattern whose batch norm takes the convolution itself
FusedBnOnConv ==
    [_fused_qat_conv2d_bn_pattern EXCEPT
        ![PIndex(_fused_qat_conv2d_bn_pattern, BnTarget)].args[1] =
            In(PIndex(_fused_qat_conv2d_bn_pattern, ConvTarget))]

\* a fused pattern that adds the scaled output to the bias, not the bias to it
FusedAddSwapped ==
    LET j == PNamed(_fused_qat_conv2d_bn_pattern, "add_1")
        a == _fused_qat_conv2d_bn_pattern[j].args
    IN [_fused_qat_conv2d_bn_pattern EXCEPT ![j].args = <<a[2], a[1]>>]

\* lines 156-159
replacement_pattern_with_conv_bias == _fused_qat_conv2d_bn_pattern

\* the no-bias replacement traced from the pattern with bias
FusedNoBiasFromBias == _fused_qat_conv2d_bn_pattern

\* lines 171-174
replacement_pattern_no_conv_bias == _fused_qat_conv2d_bn_pattern_no_conv_bias

(***************************************************************************)
(* The subgraph matcher and rewriter (torch.fx.subgraph_rewriter), by its  *)
(* contract: every occurrence of the pattern is matched, the matches are   *)
(* in graph order and do not overlap, the filters decide before anything   *)
(* is replaced, and each accepted match is removed and replaced.           *)
(*                                                                         *)
(* `fault` is the way the matcher breaks that contract ("none": it does    *)
(* not).                                                                   *)
(***************************************************************************)
Faults == {"no_conv", "two_repl", "bad_anchor", "lit_arg", "none_arg", "no_arg"}

\* gi is the getitem of a (convolution -> batch norm -> getitem) chain of g
IsOccurrence(ns, g, gi) ==
    /\ ns[gi].target = match_pattern[PNamed(match_pattern, "getitem")].target
    /\ Len(ns[gi].args) >= 1 /\ IsNode(ns[gi].args[1])
    /\ LET b == ns[gi].args[1] IN
       /\ InGraph(g, b) /\ ns[b].target = match_pattern[PNamed(match_pattern, "bn")].target
       /\ Len(ns[b].args) >= 1 /\ IsNode(ns[b].args[1])
       /\ LET c == ns[b].args[1] IN
          /\ InGraph(g, c)
          /\ ns[c].target = match_pattern[PNamed(match_pattern, "convolution")].target

Occurrences(ns, g) == SelectSeq(g, LAMBDA id : IsOccurrence(ns, g, id))

\* The match anchored at getitem gi.  nodes_map lists (pattern node, host
\* node) in the order the matcher meets the pattern's nodes, walking up from
\* the anchor; a placeholder is bound to whatever feeds the occurrence, None
\* for an absent bias.
InternalMatch(ns, gi, f) ==
    LET b == ns[gi].args[1]
        c == ns[b].args[1]
        E(pn, gn) == [p |-> pn, g |-> gn]
        full == <<E("getitem", gi), E("bn", b), E("convolution", c),
                  E("x", ns[c].args[1]), E("conv_weight", ns[c].args[2]),
                  E("conv_bias", ns[c].args[3]),
                  E("bn_weight", ns[b].args[2]), E("bn_bias", ns[b].args[3]),
                  E("bn_running_mean", ns[b].args[4]), E("bn_running_var", ns[b].args[5])>>
    IN [anchor |-> gi, bn |-> b, conv |-> c,
        nodes_map |-> IF f = "no_conv"
                      THEN SelectSeq(full, LAMBDA e : ~(IsNode(e.g) /\ ns[e.g].target = ConvTarget))
                      ELSE full,
        placeholder_nodes |-> <<ns[c].args[1], ns[c].args[2], ns[c].args[3],
                                ns[b].args[2], ns[b].args[3], ns[b].args[4], ns[b].args[5]>>]

MatchedNodes(m) == {m.anchor, m.bn, m.conv}

\* the matches of ms from position i on that overlap none of those kept
RECURSIVE NonOverlapping(_, _, _)
NonOverlapping(ms, i, kept) ==
    IF i > Len(ms) THEN kept
    ELSE IF \E k \in 1..Len(kept) : MatchedNodes(kept[k]) \cap MatchedNodes(ms[i]) # {}
         THEN NonOverlapping(ms, i + 1, kept)
         ELSE NonOverlapping(ms, i + 1, Append(kept, ms[i]))

Matches(ns, g, f) ==
    LET occ == Occurrences(ns, g) IN
    NonOverlapping([i \in 1..Len(occ) |-> InternalMatch(ns, occ[i], f)], 1, <<>>)

\* the replacement pattern a broken pattern library hands to the rewriter
Broken(P, f) ==
    LET jb == PIndex(P, BnTarget)
        jc == PIndex(P, ConvTarget)
        jd == CHOOSE j \in 1..Len(P) : P[j].args[1] = In(jc)
    IN CASE f = "lit_arg" -> [P EXCEPT ![jb].args[1] = Lit(0)]
         [] f = "none_arg" -> [P EXCEPT ![jb].args[1] = NoneArg]
         [] f = "no_arg" -> [P EXCEPT ![jd].args[1] = Ph("x")]
         [] OTHER -> P

\* the position in g of the first user of node id
FirstUserPos(ns, g, id) == CHOOSE i \in 1..Len(g) :
    /\ g[i] \in Users(ns, g, id)
    /\ \A j \in 1..(i - 1) : g[j] \notin Users(ns, g, id)

\* Replace match mt by a copy of pattern P.  st = [nodes, graph, changed, out].
ReplaceMatch(st, mt, P, f, withBias) ==
    LET base == Len(st.nodes)
        val(k) == LET gn == mt.placeholder_nodes[k] IN
                  IF IsNode(gn) /\ gn \in DOMAIN st.changed THEN st.changed[gn] ELSE gn
        tr(a) == IF a > Len(Placeholders) THEN base + a - Len(Placeholders)
                 ELSE IF a >= 1 THEN val(a) ELSE a
        copied == [j \in 1..Len(P) |->
                     MkNode(P[j].target, [k \in 1..Len(P[j].args) |-> tr(P[j].args[k])], P[j].meta)]
        newgi == base + Len(P)
        newbn == base + PIndex(P, BnTarget)
        newconv == base + PIndex(P, ConvTarget)
        pos == FirstUserPos(st.nodes, st.graph, mt.anchor)
        ns1 == st.nodes \o copied
        g1 == SubSeq(st.graph, 1, pos - 1) \o [j \in 1..Len(P) |-> base + j]
              \o SubSeq(st.graph, pos, Len(st.graph))
        \* replace_all_uses_with(anchor -> copy of the returning node)
        ns2 == [id \in 1..Len(ns1) |->
                  IF InGraph(st.graph, id)
                  THEN [ns1[id] EXCEPT !.args = [k \in 1..Len(ns1[id].args) |->
                            IF ns1[id].args[k] = mt.anchor THEN newgi ELSE ns1[id].args[k]]]
                  ELSE ns1[id]]
        \* erase the matched nodes: erase_node takes the node out of the graph
        \* and sets its arguments that are nodes to None
        erased == {mt.anchor, mt.bn, mt.conv}
        g2 == SelectSeq(g1, LAMBDA id : id \notin erased)
        ns3 == [id \in 1..Len(ns2) |->
                  IF id \in erased
                  THEN [ns2[id] EXCEPT !.args = [k \in 1..Len(ns2[id].args) |->
                            IF IsNode(ns2[id].args[k]) THEN NoneArg ELSE ns2[id].args[k]]]
                  ELSE ns2[id]]
    IN [nodes |-> ns3, graph |-> g2,
        changed |-> (mt.anchor :> newgi) @@ st.changed,
        out |-> Append(st.out,
                 [anchor |-> mt.anchor, nodes_map |-> mt.nodes_map,
                  replacements |-> CASE f = "two_repl" -> <<newgi, newbn>>
                                     [] f = "bad_anchor" -> <<newbn>>
                                     [] OTHER -> <<newgi>>,
                  \* what the rewriter did, kept to state the properties
                  orig_conv |-> mt.conv, orig_bn |-> mt.bn,
                  new_conv |-> newconv, new_bn |-> newbn, new_getitem |-> newgi,
                  first |-> base + 1, with_bias |-> withBias])]

RECURSIVE ReplaceAll(_, _, _, _, _, _)
ReplaceAll(st, ms, i, P, f, withBias) ==
    IF i > Len(ms) THEN st
    ELSE ReplaceAll(ReplaceMatch(st, ms[i], P, f, withBias), ms, i + 1, P, f, withBias)

(***************************************************************************)
(* The match filters.  A filter returns "True" or "False", or the name of  *)
(* the exception it raises.                                                *)
(***************************************************************************)
RECURSIVE FilterScan(_, _, _)
FilterScan(ns, nm, i) ==
    IF i > Len(nm) THEN "ValueError"
    ELSE IF ~IsNode(nm[i].g) THEN "AttributeError"
    ELSE IF ns[nm[i].g].target = ConvTarget
         THEN (IF ns[nm[i].g].args[3] # NoneArg THEN "True" ELSE "False")
         ELSE FilterScan(ns, nm, i + 1)

_has_conv_bias_filter(ns, match) == FilterScan(ns, match.nodes_map, 1)

\* a no-bias filter without the negation
NoBiasFilterNotNegated(ns, match) == _has_conv_bias_filter(ns, match)

_no_conv_bias_filter(ns, match) ==
    LET r == _has_conv_bias_filter(ns, match) IN
    CASE r = "True" -> "False" [] r = "False" -> "True" [] OTHER -> r

\* the call of the match filter of that name
ApplyFilter(match_filter, ns, match) ==
    IF match_filter = "_has_conv_bias_filter"
    THEN _has_conv_bias_filter(ns, match)
    ELSE _no_conv_bias_filter(ns, match)

\* replace_pattern_with_filters(m, match_pattern, P, [match_filter], ignore_literals)
\* -> [nodes, graph, out, err]
replace_pattern_with_filters(ns, g, P, match_filter, f, withBias) ==
    LET ms == Matches(ns, g, f)
        Filter(a, b) == ApplyFilter(match_filter, a, b)
        raising == {i \in 1..Len(ms) : Filter(ns, ms[i]) \notin {"True", "False"}}
    IN IF raising # {}
       THEN [nodes |-> ns, graph |-> g, out |-> <<>>,
             err |-> Filter(ns, ms[CHOOSE i \in raising : \A j \in raising : i <= j])]
       ELSE LET st == ReplaceAll([nodes |-> ns, graph |-> g, changed |-> <<>>, out |-> <<>>],
                                 SelectSeq(ms, LAMBDA m : Filter(ns, m) = "True"),
                                 1, Broken(P, f), f, withBias)
            IN [nodes |-> st.nodes, graph |-> st.graph, out |-> st.out, err |-> ""]

(***************************************************************************)
(* _fuse_conv_bn_qat, and a caller that may run it again on its result.    *)
(***************************************************************************)
\* Number of times the caller runs the fusion on the graph.
MaxRuns == 2

VARIABLES
    nodes,      \* the node store
    graph,      \* the nodes of m.graph, in order
    fault,      \* how the matcher breaks its contract
    pc,         \* where _fuse_conv_bn_qat is
    err,        \* the exception raised and where, NoError if none
    replacements_with_conv_bias,
    replacements_no_conv_bias,
    ri,         \* index of r in the concatenation of the two lists
    n, replacement_conv_node, replacement_bn_node,
    ki,         \* index of the nodes_map entry the copy loop is at
    wsteps,     \* iterations of the walk for r
    run,        \* the number of this run
    nodes0, graph0,  \* the graph this run was given
    nodesPre    \* the node store when post processing starts

vars == <<nodes, graph, fault, pc, err, replacements_with_conv_bias,
          replacements_no_conv_bias, ri, n, replacement_conv_node,
          replacement_bn_node, ki, wsteps, run, nodes0, graph0, nodesPre>>

NoError == [kind |-> "", at |-> ""]

Replaced == replacements_with_conv_bias \o replacements_no_conv_bias

InitWith(fs) ==
    /\ \E b \in BlockSeqs :
          /\ nodes = HostNodes(b)
          /\ graph = [i \in 1..Len(HostNodes(b)) |-> i]
    /\ fault \in fs
    /\ pc = "start" /\ err = NoError
    /\ replacements_with_conv_bias = <<>> /\ replacements_no_conv_bias = <<>>
    /\ ri = 1 /\ n = NoneArg
    /\ replacement_conv_node = NoneArg /\ replacement_bn_node = NoneArg
    /\ ki = 1 /\ wsteps = 0 /\ run = 1
    /\ nodes0 = nodes /\ graph0 = graph /\ nodesPre = nodes

Init == InitWith({"none"})

Raise(e, at) ==
    /\ pc' = "raised" /\ err' = [kind |-> e, at |-> at]

\* fusion without the dead code elimination
DceSkipped(ns, g) == g

\* line 145: m.graph.eliminate_dead_code()
HostAfterDce(ns, g) == eliminate_dead_code(ns, g)

\* lines 175-176: the second pass rewrites m, the graph the first pass left
SecondPassGraph == graph

\* an assertion that only rejects None
FirstArgNotNone(args) ==
    IF Len(args) = 0 THEN "IndexError"
    ELSE IF args[1] = NoneArg THEN "AssertionError" ELSE ""

\* line 212: assert isinstance(n.args[0], Node); the exception raised, "" if none
FirstArgError(args) ==
    IF Len(args) = 0 THEN "IndexError"
    ELSE IF ~IsNode(args[1]) THEN "AssertionError" ELSE ""

\* lines 145-167: dead code elimination and the pass for matches with bias
BiasPass ==
    /\ pc = "start"
    /\ LET g == HostAfterDce(nodes, graph)
           r == replace_pattern_with_filters(nodes, g, replacement_pattern_with_conv_bias,
                                             "_has_conv_bias_filter", fault, TRUE)
       IN /\ nodes' = r.nodes /\ graph' = r.graph
          /\ replacements_with_conv_bias' = r.out
          /\ IF r.err # "" THEN Raise(r.err, "filter") ELSE pc' = "nobias" /\ err' = err
    /\ UNCHANGED <<fault, replacements_no_conv_bias, ri, n, replacement_conv_node,
                   replacement_bn_node, ki, wsteps, run, nodes0, graph0, nodesPre>>

\* lines 171-182: the pass for matches without bias
NoBiasPass ==
    /\ pc = "nobias"
    /\ LET r == replace_pattern_with_filters(nodes, SecondPassGraph,
                                             replacement_pattern_no_conv_bias,
                                             "_no_conv_bias_filter", fault, FALSE)
       IN /\ nodes' = r.nodes /\ graph' = r.graph
          /\ replacements_no_conv_bias' = r.out
          /\ nodesPre' = r.nodes
          /\ IF r.err # "" THEN Raise(r.err, "filter") ELSE pc' = "post" /\ err' = err
    /\ ri' = 1
    /\ UNCHANGED <<fault, replacements_with_conv_bias, n, replacement_conv_node,
                   replacement_bn_node, ki, wsteps, run, nodes0, graph0>>

\* lines 199-206: the next r, its two assertions and the start of the walk
PostBegin ==
    /\ pc = "post" /\ ri <= Len(Replaced)
    /\ LET r == Replaced[ri] IN
       IF Len(r.replacements) # 1 \/ nodes[r.replacements[1]].target # GetitemTarget
       THEN Raise("AssertionError", "result") /\ UNCHANGED <<n, wsteps>>
       ELSE /\ n' = r.replacements[1] /\ wsteps' = 0
            /\ pc' = "walk" /\ err' = err
    /\ replacement_conv_node' = NoneArg /\ replacement_bn_node' = NoneArg
    /\ UNCHANGED <<nodes, graph, fault, replacements_with_conv_bias,
                   replacements_no_conv_bias, ri, ki, run, nodes0, graph0, nodesPre>>

\* lines 207-213: one iteration of the walk up the first arguments
WalkStep ==
    /\ pc = "walk"
    /\ LET c == IF nodes[n].target = ConvTarget THEN n ELSE replacement_conv_node
           b == IF nodes[n].target = BnTarget THEN n ELSE replacement_bn_node
       IN /\ replacement_conv_node' = c /\ replacement_bn_node' = b
          /\ wsteps' = wsteps + 1
          /\ IF FirstArgError(nodes[n].args) # ""
             THEN Raise(FirstArgError(nodes[n].args), "walk") /\ UNCHANGED <<n, ki>>
             ELSE /\ n' = nodes[n].args[1]
                  /\ ki' = 1 /\ err' = err
                  /\ pc' = IF c = NoneArg \/ b = NoneArg THEN "walk" ELSE "copy"
    /\ UNCHANGED <<nodes, graph, fault, replacements_with_conv_bias,
                   replacements_no_conv_bias, ri, run, nodes0, graph0, nodesPre>>

\* lines 217-228: one entry of r.nodes_map
CopyEntry(ns, original_node, rconv, rbn, rgetitem) ==
    IF original_node = NoneArg THEN ns
    ELSE LET t == ns[original_node].target
             ns1 == IF t = ConvTarget
                    THEN [ns EXCEPT ![rconv].meta = ns[original_node].meta,
                                    ![rconv].args = Head_(ns[rconv].args, 3)
                                                    \o Tail_(ns[original_node].args, 4)]
                    ELSE ns
             ns2 == IF t = BnTarget
                    THEN [ns1 EXCEPT ![rbn].meta = ns[original_node].meta]
                    ELSE ns1
         IN IF t = GetitemTarget
            THEN [ns2 EXCEPT ![rgetitem].meta = ns[original_node].meta]
            ELSE ns2

CopyStep ==
    /\ pc = "copy"
    /\ LET r == Replaced[ri] IN
       /\ nodes' = CopyEntry(nodes, r.nodes_map[ki].g, replacement_conv_node,
                             replacement_bn_node, r.replacements[1])
       /\ IF ki < Len(r.nodes_map)
          THEN ki' = ki + 1 /\ UNCHANGED <<pc, ri>>
          ELSE ki' = 1 /\ ri' = ri + 1 /\ pc' = "post"
    /\ UNCHANGED <<graph, fault, err, replacements_with_conv_bias,
                   replacements_no_conv_bias, n, replacement_conv_node,
                   replacement_bn_node, wsteps, run, nodes0, graph0, nodesPre>>

\* line 229
Return ==
    /\ pc = "post" /\ ri > Len(Replaced)
    /\ pc' = "done"
    /\ UNCHANGED <<nodes, graph, fault, err, replacements_with_conv_bias,
                   replacements_no_conv_bias, ri, n, replacement_conv_node,
                   replacement_bn_node, ki, wsteps, run, nodes0, graph0, nodesPre>>

\* the caller runs the fusion again, on the graph it got back
RunAgain ==
    /\ pc = "done" /\ run < MaxRuns
    /\ run' = run + 1 /\ pc' = "start"
    /\ nodes0' = nodes /\ graph0' = graph /\ nodesPre' = nodes
    /\ replacements_with_conv_bias' = <<>> /\ replacements_no_conv_bias' = <<>>
    /\ ri' = 1 /\ ki' = 1 /\ wsteps' = 0 /\ n' = NoneArg
    /\ replacement_conv_node' = NoneArg /\ replacement_bn_node' = NoneArg
    /\ UNCHANGED <<nodes, graph, fault, err>>

Next == BiasPass \/ NoBiasPass \/ PostBegin \/ WalkStep \/ CopyStep \/ Return \/ RunAgain

Spec == Init /\ [][Next]_vars

\* the same program with a matcher that may break its contract
InitFault == InitWith(Faults \cup {"none"})
SpecFault == InitFault /\ [][Next]_vars

(***************************************************************************)
(* Properties.                                                             *)
(***************************************************************************)
Finished == pc = "done"
PostProcessing == pc \in {"post", "walk", "copy", "done"}

\* what the matcher finds in the graph this run was given
InputMatches == Matches(nodes0, eliminate_dead_code(nodes0, graph0), "none")

WithBiasAnchors == {replacements_with_conv_bias[i].anchor : i \in 1..Len(replacements_with_conv_bias)}
NoBiasAnchors == {replacements_no_conv_bias[i].anchor : i \in 1..Len(replacements_no_conv_bias)}

\* the nodes a replacement inserted
Inserted(r) == r.first..r.new_getitem

\* the metadata of the three replacement nodes is that of the matched originals
MetaCopied(r) ==
    /\ nodes[r.new_conv].meta = nodes0[r.orig_conv].meta
    /\ nodes[r.new_bn].meta = nodes0[r.orig_bn].meta
    /\ nodes[r.new_getitem].meta = nodes0[r.anchor].meta

TrailingCopied(r) == Tail_(nodes[r.new_conv].args, 4) = Tail_(nodes0[r.orig_conv].args, 4)

\* a placeholder of the pattern is bound to a convolution, batch norm or getitem
PlaceholderBound(r) == \E k \in 1..Len(r.nodes_map) :
    /\ r.nodes_map[k].p \in Range(Placeholders)
    /\ IsNode(r.nodes_map[k].g)
    /\ nodes[r.nodes_map[k].g].target \in {ConvTarget, BnTarget, GetitemTarget}

\* C1: after fusion, every replacement convolution has the matched original
\* convolution's arguments from position 3 on, and the input, weight and bias
\* it had before post processing.
C1_ConvArgs ==
    Finished => \A i \in 1..Len(Replaced) :
        /\ TrailingCopied(Replaced[i])
        /\ Head_(nodes[Replaced[i].new_conv].args, 3) = Head_(nodesPre[Replaced[i].new_conv].args, 3)

\* C2: after fusion, the metadata of every replacement convolution, batch norm
\* and getitem equals the metadata of the original node matched at the same
\* position of the same match.
C2_MetadataEquality ==
    Finished => \A i \in 1..Len(Replaced) : MetaCopied(Replaced[i])

\* C10: when a placeholder of the pattern is bound to a convolution, batch norm
\* or getitem node, the copied metadata and trailing arguments and the bias
\* decision still come from the nodes matched to the pattern's own convolution,
\* batch norm and getitem.
C10_PlaceholderBinding ==
    Finished => \A i \in 1..Len(Replaced) :
        PlaceholderBound(Replaced[i]) =>
            /\ MetaCopied(Replaced[i])
            /\ TrailingCopied(Replaced[i])
            /\ Replaced[i].with_bias <=> (nodes0[Replaced[i].orig_conv].args[3] # NoneArg)

\* C3: exactly one of the two filters accepts each match, and over the two
\* passes every occurrence is replaced exactly once, by the pass of its filter.
C3_Disjointness ==
    PostProcessing =>
        /\ Len(Replaced) = Len(InputMatches)
        /\ \A k \in 1..Len(InputMatches) :
             LET m == InputMatches[k]
                 has == _has_conv_bias_filter(nodes0, m)
                 no == _no_conv_bias_filter(nodes0, m)
             IN /\ {has, no} = {"True", "False"}
                /\ Cardinality({i \in 1..Len(Replaced) : Replaced[i].anchor = m.anchor}) = 1
                /\ (has = "True") <=> (m.anchor \in WithBiasAnchors)
                /\ (no = "True") <=> (m.anchor \in NoBiasAnchors)

C3_Witness ==
    /\ Finished /\ run = 1
    /\ Len(replacements_with_conv_bias) >= 1 /\ Len(replacements_no_conv_bias) >= 1

\* C4: after fusion the graph holds no occurrence of the unfused pattern, each
\* occurrence of the input is replaced by one fused subgraph that is in the
\* graph, and the no-bias pass matches no node the bias pass inserted.
C4_NoUnfusedLeft ==
    /\ Finished =>
         /\ Occurrences(nodes, graph) = <<>>
         /\ \A k \in 1..Len(InputMatches) :
              \E i \in 1..Len(Replaced) :
                 /\ Replaced[i].anchor = InputMatches[k].anchor
                 /\ \A id \in Inserted(Replaced[i]) : InGraph(graph, id)
                 /\ \A j \in 1..Len(Replaced) :
                      j # i => Inserted(Replaced[j]) \cap Inserted(Replaced[i]) = {}
    /\ \A i \in 1..Len(replacements_no_conv_bias) :
         \A j \in 1..Len(replacements_with_conv_bias) :
            LET r == replacements_no_conv_bias[i] IN
            {r.anchor, r.orig_bn, r.orig_conv} \cap Inserted(replacements_with_conv_bias[j]) = {}

C4_Witness ==
    /\ Finished /\ run = 1
    /\ Len(replacements_with_conv_bias) = 1 /\ Len(replacements_no_conv_bias) = 1
    /\ replacements_with_conv_bias[1].anchor < replacements_no_conv_bias[1].anchor

SameTopology ==
    /\ graph = graph0
    /\ \A id \in Range(graph) :
         nodes[id].target = nodes0[id].target /\ nodes[id].args = nodes0[id].args

\* C5 as stated: fusion of a graph without occurrence of the pattern returns a
\* graph of the same node count and topology.
C5_Idempotence ==
    (Finished /\ Occurrences(nodes0, graph0) = <<>>) => SameTopology

\* C5 amended: fusion of a graph without occurrence of the pattern returns the
\* graph that dead code elimination leaves of it, its nodes unchanged; a second
\* run on a fused graph changes nothing.
C5_IdempotenceAfterDce ==
    /\ (Finished /\ Occurrences(nodes0, graph0) = <<>>) =>
          graph = eliminate_dead_code(nodes0, graph0) /\ nodes = nodes0
    /\ (Finished /\ run > 1) => graph = graph0 /\ nodes = nodes0

C5_Witness ==
    /\ Finished /\ run = 2
    /\ \E id \in Range(graph) : nodes[id].target = "aten.div.Tensor"

\* the original convolution of r has no bias
NoBiasOriginal(r) == nodes0[r.orig_conv].args[3] = NoneArg

C6_Inv ==
    PostProcessing => \A i \in 1..Len(Replaced) :
        LET r == Replaced[i] IN
        NoBiasOriginal(r) =>
            /\ ~r.with_bias
            /\ r.anchor \in NoBiasAnchors /\ r.anchor \notin WithBiasAnchors
            /\ \E k \in 1..Len(r.nodes_map) :
                  r.nodes_map[k].p = "conv_bias" /\ r.nodes_map[k].g = NoneArg
            /\ nodes[r.new_conv].args[3] = NoneArg
            \* the backbone is getitem -> batch norm -> div -> convolution
            /\ nodes[r.new_getitem].args[1] = r.new_bn
            /\ nodes[nodes[r.new_bn].args[1]].target = "aten.div.Tensor"
            /\ nodes[nodes[r.new_bn].args[1]].args[1] = r.new_conv

\* C6: a match whose convolution has no bias is replaced by the no-bias fused
\* pattern; its nodes_map records the bias as None and the copy loop skips that
\* entry; the replacement convolution has no bias argument and no add node is
\* between it and the replacement batch norm.
C6_NoBias ==
    /\ []C6_Inv
    /\ [][(pc = "copy" /\ Replaced[ri].nodes_map[ki].g = NoneArg) => nodes' = nodes]_vars

C6_Witness ==
    /\ pc = "copy" /\ ki > 1
    /\ Replaced[ri].nodes_map[ki - 1].g = NoneArg
    /\ NoBiasOriginal(Replaced[ri])

WellFormed(ns, g) ==
    \A i \in 1..Len(g) : \A k \in 1..Len(ns[g[i]].args) :
        IsNode(ns[g[i]].args[k]) => \E j \in 1..(i - 1) : g[j] = ns[g[i]].args[k]

\* C8: in the graph fusion returns, every argument that is a node is a node of
\* the graph that precedes the node it is an argument of, and no node of the
\* graph has a node of a replaced subgraph as an argument.
C8_WellFormed ==
    Finished =>
        /\ WellFormed(nodes, graph)
        /\ \A i \in 1..Len(Replaced) : \A id \in Range(graph) :
             Range(nodes[id].args) \cap
                {Replaced[i].anchor, Replaced[i].orig_bn, Replaced[i].orig_conv} = {}

C8_Witness ==
    /\ Finished /\ run = 1 /\ Len(Replaced) = 2
    /\ \E i, j \in 1..2 : nodes[Replaced[i].new_conv].args[1] = Replaced[j].new_getitem

\* C9: the walk from the anchor of a replacement made from either fused pattern
\* never raises, stays inside the inserted subgraph, ends within as many
\* iterations as the subgraph has nodes, and locates the replacement's own
\* convolution and batch norm.
C9_Walk ==
    /\ pc # "raised"
    /\ pc = "walk" => /\ n \in Inserted(Replaced[ri])
                      /\ wsteps < Cardinality(Inserted(Replaced[ri]))
    /\ pc = "copy" => /\ replacement_conv_node = Replaced[ri].new_conv
                      /\ replacement_bn_node = Replaced[ri].new_bn
                      /\ wsteps <= Cardinality(Inserted(Replaced[ri]))

C9_Witness ==
    /\ pc = "copy" /\ ri = 2
    /\ Replaced[1].with_bias /\ ~Replaced[2].with_bias

NoConvNode(ns, m) ==
    \A k \in 1..Len(m.nodes_map) :
        ~(IsNode(m.nodes_map[k].g) /\ ns[m.nodes_map[k].g].target = ConvTarget)

Malformed(r) ==
    Len(r.replacements) # 1 \/ nodes[r.replacements[1]].target # GetitemTarget

\* C7 as stated: a raised error is an exception of a filter or a failed
\* assertion, and fusion returns only if no Replacement Result was malformed.
C7_AssertionStyle ==
    /\ pc = "raised" =>
         \/ err.at = "filter" /\ err.kind \in {"ValueError", "AttributeError"}
         \/ err.at \in {"result", "walk"} /\ err.kind = "AssertionError"
    /\ Finished => \A i \in 1..Len(Replaced) : ~Malformed(Replaced[i])

\* C7 amended: a match without convolution node makes the filter raise; a
\* malformed Replacement Result fails an assertion; a walk at a node whose
\* first argument is a literal or None fails the assertion, and at a node
\* without arguments raises IndexError; after any of them fusion does nothing
\* more and does not return.
C7_Fatal ==
    /\ [][(pc = "start" /\ \E k \in 1..Len(Matches(nodes, HostAfterDce(nodes, graph), fault)) :
              NoConvNode(nodes, Matches(nodes, HostAfterDce(nodes, graph), fault)[k]))
          => (pc' = "raised" /\ err'.at = "filter")]_vars
    /\ [][(pc = "nobias" /\ \E k \in 1..Len(Matches(nodes, graph, fault)) :
              NoConvNode(nodes, Matches(nodes, graph, fault)[k]))
          => (pc' = "raised" /\ err'.at = "filter")]_vars
    /\ [][(pc = "post" /\ ri <= Len(Replaced) /\ Malformed(Replaced[ri]))
          => (pc' = "raised" /\ err' = [kind |-> "AssertionError", at |-> "result"])]_vars
    /\ [][(pc = "walk" /\ Len(nodes[n].args) = 0)
          => (pc' = "raised" /\ err' = [kind |-> "IndexError", at |-> "walk"])]_vars
    /\ [][(pc = "walk" /\ Len(nodes[n].args) > 0 /\ ~IsNode(nodes[n].args[1]))
          => (pc' = "raised" /\ err' = [kind |-> "AssertionError", at |-> "walk"])]_vars
    /\ [][pc # "raised"]_vars
    /\ [](Finished => \A i \in 1..Len(Replaced) : ~Malformed(Replaced[i]))

C7_Witness == pc = "raised" /\ err = [kind |-> "IndexError", at |-> "walk"]
====
